---- MODULE Spec2Model ----
(***************************************************************************)
(* TicketService (src/unnamed/part_000, the same class as                  *)
(* src/src/pairtest/TicketService.js up to the leading underscore of the   *)
(* helper names): purchase validates a list of ticket requests, prices it, *)
(* pays through the payment collaborator and, once the payment promise is  *)
(* fulfilled, reserves seats through the seat-reservation collaborator.    *)
(*                                                                         *)
(* A request is the plain object the tests pass: { getTicketType,          *)
(* noOfTickets }, modelled as [type, noOfTickets].  A call's outcome is a  *)
(* record [how, type, message, value]: how says whether the call returned, *)
(* threw synchronously, or returned a promise that is pending, resolved or *)
(* rejected; type is the constructor of the error.                         *)
(***************************************************************************)
EXTENDS Integers, Sequences, FiniteSets, TLC

VARIABLES accountId, ticketTypeRequests, op, ticketType, pc, result,
          payCalls, reserveCalls, payment, reservation, trace

vars == <<accountId, ticketTypeRequests, op, ticketType, pc, result,
          payCalls, reserveCalls, payment, reservation, trace>>

----------------------------------------------------------------------------
(* Bounds of the inputs *)

\* longest request list enumerated element by element
MaxRequests == 2
\* small ticket counts 0..MaxSmallCount, next to the counts around the limit
MaxSmallCount == 3

----------------------------------------------------------------------------
(* Configuration of the class *)

maxTicketsLimit == 20

KnownTypes == {"ADULT", "CHILD", "INFANT"}

ticketTypes == [t \in KnownTypes |->
                  CASE t = "ADULT" -> 20
                    [] t = "CHILD" -> 10
                    [] t = "INFANT" -> 0]

----------------------------------------------------------------------------
(* Inputs *)

\* ticket categories a caller can pass: the three of the table and two outside
TicketTypeNames == KnownTypes \cup {"INVALID_TYPE", "SENIOR"}

\* counts: small ones, and 10, 11, 21 so that totals of 20, 21 and more occur
NoOfTicketsValues == (0..MaxSmallCount) \cup {10, 11, 21}

RequestValues == [type : TicketTypeNames, noOfTickets : NoOfTicketsValues]

AccountIds == {"112233", "accountId"}

PaymentErrors == {"Payment failed", "Insufficient funds"}

ReservationErrors == {"Reservation failed", "No seats left"}

Repeat(r, k) == [i \in 1..k |-> r]

ShortLists == UNION {[1..n -> RequestValues] : n \in 0..MaxRequests}

\* lists of maxTicketsLimit or maxTicketsLimit + 1 equal requests, alone or
\* followed by one more request
LongLists == {Repeat(r, k) \o s :
                r \in RequestValues,
                k \in {maxTicketsLimit, maxTicketsLimit + 1},
                s \in {<<>>} \cup {<<q>> : q \in RequestValues}}

RequestLists == ShortLists \cup LongLists

----------------------------------------------------------------------------
(* Outcomes *)

NoResult == [how |-> "none", type |-> "", message |-> "", value |-> 0]

Returned(v) == [how |-> "returned", type |-> "", message |-> "", value |-> v]

Thrown(t, m) == [how |-> "thrown", type |-> t, message |-> m, value |-> 0]

Pending == [how |-> "pending", type |-> "", message |-> "", value |-> 0]

Resolved == [how |-> "resolved", type |-> "", message |-> "", value |-> 0]

Rejected(t, m) == [how |-> "rejected", type |-> t, message |-> m, value |-> 0]

MaxTicketsMessage ==
  "Maximum of " \o ToString(maxTicketsLimit) \o " tickets can be purchased at a time"

NoTicketsMessage == "No tickets selected"

AdultRequiredMessage ==
  "Child and Infant tickets cannot be purchased without purchasing an Adult ticket"

InvalidTypeMessage(t) == "Invalid ticket type: " \o t

----------------------------------------------------------------------------
(* The methods of TicketService *)

getTicketPriceNoCheck(t) ==
  IF t \in DOMAIN ticketTypes THEN Returned(ticketTypes[t]) ELSE Returned(0)

getTicketPriceFlat(t) ==
  IF t \in DOMAIN ticketTypes
    THEN Returned(IF t = "INFANT" THEN 0 ELSE 20)
    ELSE Thrown("InvalidPurchaseException", InvalidTypeMessage(t))

getTicketPrice(t) ==
  IF t \in DOMAIN ticketTypes
    THEN Returned(ticketTypes[t])
    ELSE Thrown("InvalidPurchaseException", InvalidTypeMessage(t))

RECURSIVE totalTicketsFrom(_, _, _)
totalTicketsFrom(reqs, i, acc) ==
  IF i > Len(reqs) THEN acc
  ELSE totalTicketsFrom(reqs, i + 1, acc + reqs[i].noOfTickets)

calculateTotalTickets(reqs) == totalTicketsFrom(reqs, 1, 0)

\* the reduce of calculateTotalPrice: the first failing price lookup ends it
RECURSIVE totalPriceFrom(_, _, _)
totalPriceFrom(reqs, i, acc) ==
  IF i > Len(reqs) THEN Returned(acc)
  ELSE LET price == getTicketPrice(reqs[i].type)
       IN  IF price.how = "thrown" THEN price
           ELSE totalPriceFrom(reqs, i + 1, acc + reqs[i].noOfTickets * price.value)

calculateTotalPrice(acct, reqs) == totalPriceFrom(reqs, 1, 0)

validatePurchase(reqs) ==
  LET totalTickets == calculateTotalTickets(reqs)
      adultTickets == \E i \in DOMAIN reqs : reqs[i].type = "ADULT"
      hasChildOrInfantWithoutAdult ==
        \E i \in DOMAIN reqs :
          /\ reqs[i].type = "CHILD" \/ reqs[i].type = "INFANT"
          /\ reqs[i].noOfTickets > 0
          /\ ~adultTickets
  IN  IF Len(reqs) > maxTicketsLimit THEN Thrown("Error", MaxTicketsMessage)
      ELSE IF totalTickets = 0 THEN Thrown("Error", NoTicketsMessage)
      ELSE IF hasChildOrInfantWithoutAdult THEN Thrown("Error", AdultRequiredMessage)
      ELSE Returned(0)

RECURSIVE seatsFromWithInfants(_, _, _)
seatsFromWithInfants(reqs, i, acc) ==
  IF i > Len(reqs) THEN acc
  ELSE seatsFromWithInfants(reqs, i + 1,
         acc + (IF reqs[i].type \in KnownTypes THEN reqs[i].noOfTickets ELSE 0))

seatsToReserveWithInfants(reqs) == seatsFromWithInfants(reqs, 1, 0)

RECURSIVE seatsFrom(_, _, _)
seatsFrom(reqs, i, acc) ==
  IF i > Len(reqs) THEN acc
  ELSE LET seatsRequired ==
             IF reqs[i].type = "ADULT" \/ reqs[i].type = "CHILD"
               THEN reqs[i].noOfTickets ELSE 0
       IN  seatsFrom(reqs, i + 1, acc + seatsRequired)

\* the argument reserveSeats passes to the seat-reservation collaborator
seatsToReserve(reqs) == seatsFrom(reqs, 1, 0)

\* reserveSeats: one call of the collaborator, appended to those made so far
reserveSeatsTwice(reqs, calls) ==
  Append(Append(calls, seatsToReserve(reqs)), seatsToReserve(reqs))

reserveSeats(reqs, calls) == Append(calls, seatsToReserve(reqs))

\* the synchronous part of purchase: its outcome and the pay calls it makes
purchaseStartPayFirst(acct, reqs) ==
  LET price == calculateTotalPrice(acct, reqs)
      paid  == IF price.how = "thrown" THEN <<>> ELSE <<<<acct, price.value>>>>
      valid == validatePurchase(reqs)
  IN  IF price.how = "thrown" THEN [result |-> price, pay |-> <<>>]
      ELSE IF valid.how = "thrown" THEN [result |-> valid, pay |-> paid]
      ELSE [result |-> Pending, pay |-> paid]

purchaseStart(acct, reqs) ==
  LET valid == validatePurchase(reqs)
      price == calculateTotalPrice(acct, reqs)
  IN  IF valid.how = "thrown" THEN [result |-> valid, pay |-> <<>>]
      ELSE IF price.how = "thrown" THEN [result |-> price, pay |-> <<>>]
      ELSE [result |-> Pending, pay |-> <<<<acct, price.value>>>>]

\* .then(() => this.reserveSeats(...)): the callback runs on fulfilment only
thenReserveAlways(settled, reqs, calls) == reserveSeats(reqs, calls)

thenReserve(settled, reqs, calls) ==
  IF settled = "resolved" THEN reserveSeats(reqs, calls) ELSE calls

\* .catch(error => { throw new InvalidPurchaseException(error.message) })
catchRethrow(type, message) == Rejected(type, message)

catchHandler(type, message) == Rejected("InvalidPurchaseException", message)

----------------------------------------------------------------------------
(* The state machine: one call on a fresh TicketService *)

Init ==
  /\ accountId \in AccountIds
  /\ ticketTypeRequests \in RequestLists
  /\ op = "none"
  /\ ticketType = ""
  /\ pc = "idle"
  /\ result = NoResult
  /\ payCalls = <<>>
  /\ reserveCalls = <<>>
  /\ payment = [state |-> "none", message |-> ""]
  /\ reservation = [state |-> "none", message |-> ""]
  /\ trace = <<>>

Purchase ==
  /\ pc = "idle"
  /\ LET start == purchaseStart(accountId, ticketTypeRequests)
     IN  /\ op' = "purchase"
         /\ result' = start.result
         /\ payCalls' = payCalls \o start.pay
         /\ IF start.pay # <<>>
              THEN /\ payment' = [state |-> "pending", message |-> ""]
                   /\ trace' = Append(trace, "pay")
              ELSE UNCHANGED <<payment, trace>>
         /\ pc' = IF start.result.how = "thrown" THEN "done" ELSE "awaitPay"
  /\ UNCHANGED <<accountId, ticketTypeRequests, ticketType, reserveCalls, reservation>>

PaymentResolves ==
  /\ pc = "awaitPay"
  /\ payment.state = "pending"
  /\ payment' = [state |-> "resolved", message |-> ""]
  /\ reserveCalls' = thenReserve("resolved", ticketTypeRequests, reserveCalls)
  /\ IF reserveCalls' # reserveCalls
       THEN /\ reservation' = [state |-> "pending", message |-> ""]
            /\ trace' = trace \o <<"payResolved", "reserve">>
            /\ pc' = "awaitReserve"
            /\ UNCHANGED result
       ELSE /\ trace' = Append(trace, "payResolved")
            /\ pc' = "done"
            /\ result' = Resolved
            /\ UNCHANGED reservation
  /\ UNCHANGED <<accountId, ticketTypeRequests, op, ticketType, payCalls>>

PaymentRejects ==
  /\ pc = "awaitPay"
  /\ payment.state = "pending"
  /\ \E m \in PaymentErrors :
       /\ payment' = [state |-> "rejected", message |-> m]
       /\ reserveCalls' = thenReserve("rejected", ticketTypeRequests, reserveCalls)
       /\ result' = catchHandler("Error", m)
  /\ trace' = IF reserveCalls' # reserveCalls
                THEN trace \o <<"payRejected", "reserve">>
                ELSE Append(trace, "payRejected")
  /\ pc' = "done"
  /\ UNCHANGED <<accountId, ticketTypeRequests, op, ticketType, payCalls, reservation>>

ReservationResolves ==
  /\ pc = "awaitReserve"
  /\ reservation' = [state |-> "resolved", message |-> ""]
  /\ result' = Resolved
  /\ trace' = Append(trace, "reserveResolved")
  /\ pc' = "done"
  /\ UNCHANGED <<accountId, ticketTypeRequests, op, ticketType, payCalls,
                 reserveCalls, payment>>

ReservationRejects ==
  /\ pc = "awaitReserve"
  /\ \E m \in ReservationErrors :
       /\ reservation' = [state |-> "rejected", message |-> m]
       /\ result' = catchHandler("Error", m)
  /\ trace' = Append(trace, "reserveRejected")
  /\ pc' = "done"
  /\ UNCHANGED <<accountId, ticketTypeRequests, op, ticketType, payCalls,
                 reserveCalls, payment>>

(* The helper methods called on their own, as the tests call them *)

CallValidatePurchase ==
  /\ pc = "idle"
  /\ op' = "validatePurchase"
  /\ result' = validatePurchase(ticketTypeRequests)
  /\ pc' = "done"
  /\ UNCHANGED <<accountId, ticketTypeRequests, ticketType, payCalls, reserveCalls,
                 payment, reservation, trace>>

CallCalculateTotalTickets ==
  /\ pc = "idle"
  /\ op' = "calculateTotalTickets"
  /\ result' = Returned(calculateTotalTickets(ticketTypeRequests))
  /\ pc' = "done"
  /\ UNCHANGED <<accountId, ticketTypeRequests, ticketType, payCalls, reserveCalls,
                 payment, reservation, trace>>

CallCalculateTotalPrice ==
  /\ pc = "idle"
  /\ op' = "calculateTotalPrice"
  /\ result' = calculateTotalPrice(accountId, ticketTypeRequests)
  /\ pc' = "done"
  /\ UNCHANGED <<accountId, ticketTypeRequests, ticketType, payCalls, reserveCalls,
                 payment, reservation, trace>>

CallReserveSeats ==
  /\ pc = "idle"
  /\ op' = "reserveSeats"
  /\ reserveCalls' = reserveSeats(ticketTypeRequests, reserveCalls)
  /\ reservation' = [state |-> "pending", message |-> ""]
  /\ trace' = Append(trace, "reserve")
  /\ result' = Pending
  /\ pc' = "done"
  /\ UNCHANGED <<accountId, ticketTypeRequests, ticketType, payCalls, payment>>

CallGetTicketPrice ==
  /\ pc = "idle"
  /\ \E t \in TicketTypeNames :
       /\ ticketType' = t
       /\ result' = getTicketPrice(t)
  /\ op' = "getTicketPrice"
  /\ pc' = "done"
  /\ UNCHANGED <<accountId, ticketTypeRequests, payCalls, reserveCalls,
                 payment, reservation, trace>>

Next ==
  \/ Purchase
  \/ PaymentResolves
  \/ PaymentRejects
  \/ ReservationResolves
  \/ ReservationRejects
  \/ CallValidatePurchase
  \/ CallCalculateTotalTickets
  \/ CallCalculateTotalPrice
  \/ CallReserveSeats
  \/ CallGetTicketPrice

Spec == Init /\ [][Next]_vars

----------------------------------------------------------------------------
(* What the specification says of a request list, stated apart from the code *)

RECURSIVE SumCounts(_, _)
SumCounts(reqs, idx) ==
  IF idx = {} THEN 0
  ELSE LET i == CHOOSE j \in idx : TRUE
       IN  reqs[i].noOfTickets + SumCounts(reqs, idx \ {i})

\* the sum of the counts of the requests whose category is in types
CountOf(reqs, types) == SumCounts(reqs, {i \in DOMAIN reqs : reqs[i].type \in types})

TotalCount(reqs) == CountOf(reqs, TicketTypeNames)

ExpectedPrice(reqs) ==
  20 * CountOf(reqs, {"ADULT"}) + 10 * CountOf(reqs, {"CHILD"}) + 0 * CountOf(reqs, {"INFANT"})

AllKnown(reqs) == \A i \in DOMAIN reqs : reqs[i].type \in KnownTypes

\* the category of the first request outside the price table
FirstUnknown(reqs) ==
  reqs[CHOOSE i \in DOMAIN reqs :
         /\ reqs[i].type \notin KnownTypes
         /\ \A j \in 1..(i - 1) : reqs[j].type \in KnownTypes].type

ChildOrInfantWithoutAdult(reqs) ==
  /\ \E i \in DOMAIN reqs : reqs[i].type \in {"CHILD", "INFANT"} /\ reqs[i].noOfTickets > 0
  /\ \A i \in DOMAIN reqs : reqs[i].type # "ADULT"

\* validate as section 4.1 words it: the message of the first rule violated
SpecValidateMessage(reqs) ==
  IF TotalCount(reqs) > 20 THEN MaxTicketsMessage
  ELSE IF TotalCount(reqs) < 1 THEN NoTicketsMessage
  ELSE IF ChildOrInfantWithoutAdult(reqs) THEN AdultRequiredMessage
  ELSE ""

Fails(r, message) == r.how = "thrown" /\ r.message = message

NoCollaboratorCalled == payCalls = <<>> /\ reserveCalls = <<>>

Occurs(e) == \E i \in DOMAIN trace : trace[i] = e

----------------------------------------------------------------------------
(* Claims *)

\* C1: for every request list whose total ticket count (the sum of the counts
\* of its requests) is greater than 20, validatePurchase fails with the
\* maximum-of-20-tickets error, whatever the categories and the length.
C1_TotalAboveLimitRejected ==
  (op = "validatePurchase" /\ TotalCount(ticketTypeRequests) > 20)
    => Fails(result, MaxTicketsMessage)

\* C2: when the payment collaborator rejects, the seat-reservation
\* collaborator is never invoked and purchase rejects with an error whose
\* message is the message of the payment failure.
C2_PaymentFailureStopsReservation ==
  (op = "purchase" /\ payment.state = "rejected")
    => /\ reserveCalls = <<>>
       /\ ~Occurs("reserve")
       /\ reservation.state = "none"
       /\ pc = "done"
       /\ result.how = "rejected"
       /\ result.message = payment.message

C2_Witness ==
  /\ op = "purchase"
  /\ payment = [state |-> "rejected", message |-> "Payment failed"]
  /\ ticketTypeRequests = <<[type |-> "ADULT", noOfTickets |-> 2]>>
  /\ result.how = "rejected"

\* C3: a purchase whose request list fails validatePurchase invokes neither
\* the payment nor the seat-reservation collaborator: the validation error is
\* thrown before any collaborator call, and the call is over.
C3_ValidationFailureCallsNothing ==
  (op = "purchase" /\ validatePurchase(ticketTypeRequests).how = "thrown")
    => /\ NoCollaboratorCalled
       /\ trace = <<>>
       /\ payment.state = "none" /\ reservation.state = "none"
       /\ pc = "done"
       /\ Fails(result, validatePurchase(ticketTypeRequests).message)

C3_Witness ==
  /\ op = "purchase"
  /\ pc = "done"
  /\ ticketTypeRequests = <<[type |-> "CHILD", noOfTickets |-> 1]>>
  /\ Fails(result, AdultRequiredMessage)
  /\ NoCollaboratorCalled

C5_PayThenReserveOnce ==
  (/\ op = "purchase"
   /\ validatePurchase(ticketTypeRequests).how = "returned"
   /\ AllKnown(ticketTypeRequests))
    => /\ Len(payCalls) = 1
       /\ Len(reserveCalls) = (IF payment.state = "resolved" THEN 1 ELSE 0)
       /\ \A i \in DOMAIN trace :
            trace[i] = "reserve" => (i > 1 /\ trace[i - 1] = "payResolved")
       /\ (payment.state = "resolved" /\ reservation.state = "resolved")
            => /\ result = Resolved
               /\ pc = "done"
               /\ trace = <<"pay", "payResolved", "reserve", "reserveResolved">>
       /\ result.how = "resolved" => reservation.state = "resolved"

C5_Witness ==
  /\ op = "purchase"
  /\ ticketTypeRequests = <<[type |-> "ADULT", noOfTickets |-> 2]>>
  /\ payCalls = <<<<accountId, 40>>>>
  /\ reserveCalls = <<2>>
  /\ result = Resolved

\* C6: over ADULT, CHILD and INFANT, calculateTotalPrice returns the sum of
\* count times price (20, 10, 0), 0 for the empty list, and purchase passes
\* exactly that amount, with the caller's account identifier, to pay.
C6_TotalPrice ==
  /\ (op = "calculateTotalPrice" /\ AllKnown(ticketTypeRequests))
       => result = Returned(ExpectedPrice(ticketTypeRequests))
  /\ (op = "calculateTotalPrice" /\ ticketTypeRequests = <<>>)
       => result = Returned(0)
  /\ (op = "purchase" /\ payCalls # <<>>)
       => payCalls = <<<<accountId, ExpectedPrice(ticketTypeRequests)>>>>

C6_Witness ==
  /\ op = "purchase"
  /\ ticketTypeRequests = <<[type |-> "ADULT", noOfTickets |-> 2],
                            [type |-> "CHILD", noOfTickets |-> 3]>>
  /\ payCalls = <<<<"112233", 70>>>>

\* C7: the seat count passed to the reservation collaborator is the sum of the
\* counts of the ADULT and CHILD requests, INFANT requests adding nothing, and
\* reserveSeats calls the collaborator exactly once with that sum.
C7_SeatsReserved ==
  /\ reserveCalls # <<>>
       => reserveCalls = <<CountOf(ticketTypeRequests, {"ADULT", "CHILD"})>>
  /\ op = "reserveSeats" => Len(reserveCalls) = 1
  /\ (op = "purchase" /\ payment.state = "resolved") => Len(reserveCalls) = 1

C7_Witness ==
  /\ op = "reserveSeats"
  /\ ticketTypeRequests = <<[type |-> "INFANT", noOfTickets |-> 1],
                            [type |-> "ADULT", noOfTickets |-> 2]>>
  /\ reserveCalls = <<2>>

\* C8: a list with a total between 1 and 20, a CHILD or INFANT request of
\* count > 0 and no ADULT request fails validatePurchase with the
\* adult-required error; and the error reported is that of the first rule the
\* list violates, in the order count limit (total above 20), emptiness (total
\* below 1), adult accompaniment.
C8_FirstViolatedRuleReported ==
  op = "validatePurchase"
    => /\ (/\ TotalCount(ticketTypeRequests) \in 1..20
           /\ ChildOrInfantWithoutAdult(ticketTypeRequests))
            => Fails(result, AdultRequiredMessage)
       /\ IF SpecValidateMessage(ticketTypeRequests) = ""
            THEN result.how = "returned"
            ELSE Fails(result, SpecValidateMessage(ticketTypeRequests))

C10_PaidPurchaseHasAdult ==
  (op = "purchase" /\ payCalls # <<>>)
    => /\ CountOf(ticketTypeRequests, {"ADULT"}) >= 1
       /\ \A i \in DOMAIN reserveCalls : reserveCalls[i] >= 1

====
